---- MODULE Spec2Model ----
(***************************************************************************)
(* Model of python-packages/adb/device.py: device discovery, the           *)
(* AndroidDevice handle with its lazily cached fields, the shell exit-code *)
(* protocol and the getprop helpers.                                       *)
(*                                                                         *)
(* Python strings are sequences of one-character strings.  An optional     *)
(* value is a sequence of length 0 (None) or 1 (the value).                *)
(***************************************************************************)
EXTENDS Integers, Sequences, FiniteSets, TLC

VARIABLES
    serial,       \* AndroidDevice.serial (None before a handle exists)
    adb_cmd,      \* AndroidDevice.adb_cmd
    _features,    \* AndroidDevice._features
    _linesep,     \* AndroidDevice._linesep
    bridge,       \* what the bridge answers to `features` and `shell echo`
    attached,     \* devices known to the bridge: <<[serial, state], ...>>
    env,          \* os.environ['ANDROID_SERIAL'] (optional)
    issued,       \* bridge queries issued by the last operation
    modes,        \* (epilogue appended, output parsed) of every shell call
    input,        \* the text the bridge process is about to produce
    ret           \* the last operation: name, arguments, outcome

vars == <<serial, adb_cmd, _features, _linesep, bridge, attached, env,
          issued, modes, input, ret>>

(***************************************************************************)
(* Bounds                                                                  *)
(***************************************************************************)
MaxPrefixLen == 4
MaxTailLen == 4
MaxPayloadLen == 7
MaxCode == 255
MaxEntries == 3
MaxProps == 2

(***************************************************************************)
(* Python values                                                           *)
(***************************************************************************)
None == <<>>
Some(v) == <<v>>

Return(v) == [kind |-> "return", value |-> v]
Raise(e) == [kind |-> "raise", exc |-> e]
RaiseWith(e, a) == [kind |-> "raise", exc |-> e, args |-> a]

Whitespace == {" ", "\t", "\n", "\r", "\f"}
Digits == <<"0", "1", "2", "3", "4", "5", "6", "7", "8", "9">>

Max(a, b) == IF a > b THEN a ELSE b

\* All sequences over alphabet A of length 0..n.
SeqsUpTo(A, n) == UNION {[1..k -> A] : k \in 0..n}

(***************************************************************************)
(* str methods                                                             *)
(***************************************************************************)
\* s[-n:] for n > 0
LastChars(s, n) == IF Len(s) <= n THEN s ELSE SubSeq(s, Len(s) - n + 1, Len(s))

\* s[:-k] for k > 0
DropLast(s, k) == SubSeq(s, 1, Max(0, Len(s) - k))

\* positions where sep occurs in s
Occurrences(s, sep) ==
    {i \in 1..(Len(s) - Len(sep) + 1) : SubSeq(s, i, i + Len(sep) - 1) = sep}

\* sub in s
Contains(s, sub) == Occurrences(s, sub) # {}

\* s.rpartition(sep)
RPartition(s, sep) ==
    LET occ == Occurrences(s, sep) IN
    IF occ = {} THEN <<<<>>, <<>>, s>>
    ELSE LET i == CHOOSE j \in occ : \A k \in occ : k <= j IN
         <<SubSeq(s, 1, i - 1), sep, SubSeq(s, i + Len(sep), Len(s))>>

\* s.strip()
Strip(s) ==
    LET keep == {i \in 1..Len(s) : s[i] \notin Whitespace} IN
    IF keep = {} THEN <<>>
    ELSE LET lo == CHOOSE i \in keep : \A k \in keep : i <= k
             hi == CHOOSE i \in keep : \A k \in keep : k <= i
         IN SubSeq(s, lo, hi)

\* s.splitlines(): lines end at "\n", "\r" or "\r\n"; no empty last line
RECURSIVE SplitLines(_)
SplitLines(s) ==
    IF s = <<>> THEN <<>>
    ELSE LET brk == {i \in 1..Len(s) : s[i] \in {"\n", "\r"}} IN
         IF brk = {} THEN <<s>>
         ELSE LET i == CHOOSE j \in brk : \A k \in brk : j <= k
                  n == IF s[i] = "\r" /\ i < Len(s) /\ s[i + 1] = "\n"
                       THEN 2 ELSE 1
              IN <<SubSeq(s, 1, i - 1)>> \o SplitLines(SubSeq(s, i + n, Len(s)))

\* x in list
InList(x, list) == \E i \in 1..Len(list) : list[i] = x

DigitValue(c) == (CHOOSE d \in 1..10 : Digits[d] = c) - 1
IsDigit(c) == \E d \in 1..10 : Digits[d] = c

RECURSIVE DigitsValue(_)
DigitsValue(s) ==
    IF s = <<>> THEN 0
    ELSE 10 * DigitsValue(SubSeq(s, 1, Len(s) - 1)) + DigitValue(s[Len(s)])

\* int(s): surrounding whitespace is stripped, an optional sign, then one or
\* more decimal digits; anything else is a ValueError.
PyInt(s) ==
    LET t == Strip(s)
        signed == t # <<>> /\ t[1] \in {"+", "-"}
        body == IF signed THEN Tail(t) ELSE t
    IN IF body # <<>> /\ \A i \in 1..Len(body) : IsDigit(body[i])
       THEN Return(IF signed /\ t[1] = "-" THEN 0 - DigitsValue(body)
                   ELSE DigitsValue(body))
       ELSE Raise("ValueError")

\* str(n) for n >= 0, as the remote shell prints $?
RECURSIVE DecimalText(_)
DecimalText(n) ==
    IF n < 10 THEN <<Digits[n + 1]>>
    ELSE DecimalText(n \div 10) \o <<Digits[(n % 10) + 1]>>

(***************************************************************************)
(* AndroidDevice class attributes                                          *)
(***************************************************************************)
_RETURN_CODE_DELIMITER == <<"x">>

\* 'echo "{0}$?"'.format(_RETURN_CODE_DELIMITER)
_RETURN_CODE_PROBE_STRING ==
    <<"e", "c", "h", "o", " ", "\"">> \o _RETURN_CODE_DELIMITER
        \o <<"$", "?", "\"">>

\* len('{0}255\r\n'.format(_RETURN_CODE_DELIMITER))
_RETURN_CODE_SEARCH_LENGTH ==
    Len(_RETURN_CODE_DELIMITER \o <<"2", "5", "5", "\r", "\n">>)

SHELL_PROTOCOL_FEATURE == <<"s", "h", "e", "l", "l", "_", "v", "2">>

(***************************************************************************)
(* AndroidDevice._parse_shell_output                                       *)
(***************************************************************************)
\* A slip: the cleaned output is taken from the (possibly truncated) search
\* text instead of the original string.
_parse_shell_output_truncated(out) ==
    LET search_text == LastChars(out, _RETURN_CODE_SEARCH_LENGTH)
        partition == RPartition(search_text, _RETURN_CODE_DELIMITER)
    IN IF partition[2] = <<>>
       THEN RaiseWith("RuntimeError", "Could not find exit status in shell output.")
       ELSE LET result == PyInt(partition[3]) IN
            IF result.kind = "raise" THEN result
            ELSE Return(<<result.value, partition[1]>>)

_parse_shell_output(out) ==
    LET search_text ==
            IF Len(out) > _RETURN_CODE_SEARCH_LENGTH
            THEN LastChars(out, _RETURN_CODE_SEARCH_LENGTH)
            ELSE out
        partition == RPartition(search_text, _RETURN_CODE_DELIMITER)
    IN IF partition[2] = <<>>
       THEN RaiseWith("RuntimeError", "Could not find exit status in shell output.")
       ELSE LET result == PyInt(partition[3]) IN
            IF result.kind = "raise" THEN result
            ELSE Return(<<result.value,
                          DropLast(out, Len(partition[2]) + Len(partition[3]))>>)

(***************************************************************************)
(* Specification of the parser alone: _parse_shell_output applied to       *)
(* bounded outputs.                                                        *)
(***************************************************************************)
\* <payload><delimiter><digits>, payload without the delimiter
Payloads == SeqsUpTo({"a"}, MaxPayloadLen) \cup SeqsUpTo({"1", "\n"}, 2)
ProbeOutputs ==
    {p \o _RETURN_CODE_DELIMITER \o DecimalText(c) : p \in Payloads, c \in 0..MaxCode}

\* arbitrary merged output: a prefix followed by a tail
Prefixes == SeqsUpTo({"a", "x"}, MaxPrefixLen)
Tails == SeqsUpTo({"x", "7", "a", "\n", "-"}, MaxTailLen)
ParseOutputs == ProbeOutputs \cup {p \o t : p \in Prefixes, t \in Tails}

NoHandle ==
    /\ serial = None
    /\ adb_cmd = <<>>
    /\ _features = None
    /\ _linesep = None
    /\ bridge = [features |-> Raise("CalledProcessError"),
                 echo |-> Raise("CalledProcessError")]
    /\ issued = <<>>
    /\ modes = {}

InitParse ==
    /\ NoHandle
    /\ attached = <<>>
    /\ env = None
    /\ input \in ParseOutputs
    /\ ret = [op |-> "init"]

ParseShellOutput ==
    /\ ret.op = "init"
    /\ ret' = [op |-> "_parse_shell_output", out |-> input,
               result |-> _parse_shell_output(input)]
    /\ UNCHANGED <<serial, adb_cmd, _features, _linesep, bridge, attached,
                   env, issued, modes, input>>

NextParse == ParseShellOutput

SpecParse == InitParse /\ [][NextParse]_vars


(***************************************************************************)
(* C1: for every output <payload>x<digits>, digits the decimal text of a   *)
(* code in 0..MaxCode and payload without 'x', the parse returns that code *)
(* and exactly the payload, whether or not the output exceeds the window.  *)
(***************************************************************************)
CodeTexts == [c \in 0..MaxCode |-> DecimalText(c)]

\* index of the first 'x' of out (out contains one)
FirstDelimiter(out) ==
    CHOOSE j \in 1..Len(out) : out[j] = "x" /\ \A k \in 1..(j - 1) : out[k] # "x"

PayloadOf(out) == SubSeq(out, 1, FirstDelimiter(out) - 1)

CodeTextOf(out) == SubSeq(out, FirstDelimiter(out) + 1, Len(out))

\* out = <payload>x<digits of c> with no 'x' in payload
IsProbeOutput(out, c) ==
    /\ \E j \in 1..Len(out) : out[j] = "x"
    /\ CodeTextOf(out) = CodeTexts[c]

C1_ProbeOutputRoundTrip ==
    (ret.op = "_parse_shell_output" /\ \E j \in 1..Len(ret.out) : ret.out[j] = "x") =>
        LET payload == PayloadOf(ret.out)
            digits == CodeTextOf(ret.out)
        IN \A c \in 0..MaxCode :
               digits = CodeTexts[c] => ret.result = Return(<<c, payload>>)

C1_Witness ==
    /\ ret.op = "_parse_shell_output"
    /\ Len(ret.out) > _RETURN_CODE_SEARCH_LENGTH
    /\ IsProbeOutput(ret.out, 255)
    /\ Len(PayloadOf(ret.out)) = MaxPayloadLen
    /\ ret.result.kind = "return"

(***************************************************************************)
(* C8: whenever no exit code can be recovered from the last 6 characters   *)
(* (no 'x' there, or the text after the rightmost 'x' there is not an      *)
(* integer), the parse fails with the RuntimeError 'Could not find exit    *)
(* status in shell output' and with no other kind of failure.              *)
(***************************************************************************)
Recoverable(out) ==
    LET window == LastChars(out, 6)
        after == RPartition(window, <<"x">>)[3]
    IN /\ Contains(window, <<"x">>)
       /\ PyInt(after).kind = "return"

C8_UnrecoverableIsRuntimeError ==
    (ret.op = "_parse_shell_output" /\ ~Recoverable(ret.out)) =>
        ret.result = RaiseWith("RuntimeError",
                               "Could not find exit status in shell output.")


(***************************************************************************)
(* AndroidDevice: construction, lazy properties, shell                     *)
(***************************************************************************)
ADB == <<"a", "d", "b">>
OPT_S == <<"-", "s">>
OPT_P == <<"-", "p">>
SHELL == <<"s", "h", "e", "l", "l">>

\* AndroidDevice.__init__: the adb_cmd of a new handle
NewAdbCmd(s, product) ==
    <<ADB>> \o (IF s # None THEN <<OPT_S, s[1]>> ELSE <<>>)
            \o (IF product # None THEN <<OPT_P, product[1]>> ELSE <<>>)

\* The linesep property without its cache: probes on every read.
linesep_uncached(cache, answer) ==
    IF answer.kind = "raise"
    THEN [result |-> answer, cache |-> cache, issued |-> <<"echo">>]
    ELSE [result |-> answer, cache |-> Some(answer.value), issued |-> <<"echo">>]

\* The linesep property.  answer is what `adb shell echo` does when run.
linesep(cache, answer) ==
    IF cache = None
    THEN IF answer.kind = "raise"
         THEN [result |-> answer, cache |-> cache, issued |-> <<"echo">>]
         ELSE [result |-> Return(answer.value), cache |-> Some(answer.value),
               issued |-> <<"echo">>]
    ELSE [result |-> Return(cache[1]), cache |-> cache, issued |-> <<>>]

\* The features property testing the cache for truth instead of None: an
\* empty feature list is queried again.
features_falsy(cache, answer) ==
    IF cache = None \/ cache = Some(<<>>)
    THEN LET v == IF answer.kind = "raise" THEN <<>>
                  ELSE SplitLines(answer.value)
         IN [result |-> Return(v), cache |-> Some(v), issued |-> <<"features">>]
    ELSE [result |-> Return(cache[1]), cache |-> cache, issued |-> <<>>]

\* The features property.  answer is what `adb features` does when run: its
\* output, or CalledProcessError.
features(cache, answer) ==
    IF cache = None
    THEN LET v == IF answer.kind = "raise" THEN <<>>
                  ELSE SplitLines(answer.value)
         IN [result |-> Return(v), cache |-> Some(v), issued |-> <<"features">>]
    ELSE [result |-> Return(cache[1]), cache |-> cache, issued |-> <<>>]

\* '; ' + _RETURN_CODE_PROBE_STRING
Epilogue == <<";", " ">> \o _RETURN_CODE_PROBE_STRING

\* _make_shell_cmd appending the probe in both modes.
_make_shell_cmd_always(cmdbase, feats, user_cmd) ==
    cmdbase \o <<SHELL>> \o user_cmd \o <<Epilogue>>

\* _make_shell_cmd, given the value the features property returned
_make_shell_cmd(cmdbase, feats, user_cmd) ==
    LET command == cmdbase \o <<SHELL>> \o user_cmd IN
    IF ~InList(SHELL_PROTOCOL_FEATURE, feats)
    THEN command \o <<Epilogue>>
    ELSE command

\* shell_nocheck: proc is what the bridge process does with the command
\* (stdout, stderr, returncode); answer is the bridge's reply to `features`.
shell_nocheck(cmdbase, cache, answer, cmd, proc) ==
    LET f1 == features(cache, answer)
        command == _make_shell_cmd(cmdbase, f1.result.value, cmd)
        f2 == features(f1.cache, answer)
        v2 == InList(SHELL_PROTOCOL_FEATURE, f2.result.value)
        parsed == _parse_shell_output(proc.stdout)
    IN [command |-> command,
        cache |-> f2.cache,
        issued |-> f1.issued \o f2.issued,
        mode |-> [epilogue |-> command[Len(command)] = Epilogue,
                  parsed |-> ~v2],
        result |-> IF v2
                   THEN Return(<<proc.returncode, proc.stdout, proc.stderr>>)
                   ELSE IF parsed.kind = "raise" THEN parsed
                   ELSE Return(<<parsed.value[1], parsed.value[2], proc.stderr>>)]

\* The check of shell() testing for a positive exit code only.
shell_check_positive(cmd, nocheck) ==
    IF nocheck.kind = "raise" THEN nocheck
    ELSE IF nocheck.value[1] > 0
         THEN RaiseWith("ShellError", <<cmd, nocheck.value[2], nocheck.value[3],
                                        nocheck.value[1]>>)
         ELSE Return(<<nocheck.value[2], nocheck.value[3]>>)

\* shell(), after its call of shell_nocheck
shell_check(cmd, nocheck) ==
    IF nocheck.kind = "raise" THEN nocheck
    ELSE IF nocheck.value[1] # 0
         THEN RaiseWith("ShellError", <<cmd, nocheck.value[2], nocheck.value[3],
                                        nocheck.value[1]>>)
         ELSE Return(<<nocheck.value[2], nocheck.value[3]>>)

(***************************************************************************)
(* Specification of one handle: property reads and shell calls, while the  *)
(* bridge's answers may change between operations.                         *)
(***************************************************************************)
FeatureAnswers ==
    {Raise("CalledProcessError"),
     Return(<<"c", "m", "d", "\n">>),
     Return(<<"c", "m", "d", "\r", "\n">> \o SHELL_PROTOCOL_FEATURE \o <<"\r", "\n">>)}

EchoAnswers ==
    {Raise("CalledProcessError"), Return(<<"\n">>), Return(<<"\r", "\n">>)}

UserCmds == {<<<<"l", "s">>>>, <<<<"l", "s">>, <<"-", "l">>>>}

ProcResults ==
    {[stdout |-> <<"a", "\n">>, stderr |-> <<>>, returncode |-> 0],
     [stdout |-> <<>>, stderr |-> <<"e", "\n">>, returncode |-> 1],
     [stdout |-> <<"a">>, stderr |-> <<"e">>, returncode |-> 0 - 9],
     [stdout |-> <<"a", "\n", "x", "0", "\r", "\n">>, stderr |-> <<>>, returncode |-> 0],
     [stdout |-> <<"x", "1", "\n">>, stderr |-> <<>>, returncode |-> 0],
     [stdout |-> <<"a", "x", "-", "1", "\n">>, stderr |-> <<>>, returncode |-> 0],
     [stdout |-> <<"a", "x", "\n">>, stderr |-> <<>>, returncode |-> 255]}

Init ==
    /\ serial \in {None, Some(<<"a">>)}
    /\ adb_cmd = NewAdbCmd(serial, None)
    /\ _features = None
    /\ _linesep = None
    /\ bridge \in [features : FeatureAnswers, echo : EchoAnswers]
    /\ issued = <<>>
    /\ modes = {}
    /\ attached = <<>>
    /\ env = None
    /\ input = <<>>
    /\ ret = [op |-> "init"]

\* the bridge starts answering differently (adbd restarted, device replugged)
BridgeChange ==
    /\ \E b \in [features : FeatureAnswers, echo : EchoAnswers] :
         /\ b # bridge
         /\ bridge' = b
    /\ issued' = <<>>
    /\ ret' = [op |-> "bridge"]
    /\ UNCHANGED <<serial, adb_cmd, _features, _linesep, attached, env,
                   modes, input>>

ReadFeatures ==
    /\ LET f == features(_features, bridge.features) IN
         /\ _features' = f.cache
         /\ issued' = f.issued
         /\ ret' = [op |-> "features", result |-> f.result]
    /\ UNCHANGED <<serial, adb_cmd, _linesep, bridge, attached, env, modes,
                   input>>

ReadLinesep ==
    /\ LET l == linesep(_linesep, bridge.echo) IN
         /\ _linesep' = l.cache
         /\ issued' = l.issued
         /\ ret' = [op |-> "linesep", result |-> l.result]
    /\ UNCHANGED <<serial, adb_cmd, _features, bridge, attached, env, modes,
                   input>>

ShellNocheck ==
    /\ \E cmd \in UserCmds, proc \in ProcResults :
         LET r == shell_nocheck(adb_cmd, _features, bridge.features, cmd, proc) IN
         /\ _features' = r.cache
         /\ issued' = r.issued
         /\ modes' = modes \cup {r.mode}
         /\ ret' = [op |-> "shell_nocheck", cmd |-> cmd, proc |-> proc,
                    command |-> r.command, mode |-> r.mode,
                    result |-> r.result]
    /\ UNCHANGED <<serial, adb_cmd, _linesep, bridge, attached, env, input>>

Shell ==
    /\ \E cmd \in UserCmds, proc \in ProcResults :
         LET r == shell_nocheck(adb_cmd, _features, bridge.features, cmd, proc) IN
         /\ _features' = r.cache
         /\ issued' = r.issued
         /\ modes' = modes \cup {r.mode}
         /\ ret' = [op |-> "shell", cmd |-> cmd, proc |-> proc,
                    command |-> r.command, mode |-> r.mode,
                    nocheck |-> r.result,
                    result |-> shell_check(cmd, r.result)]
    /\ UNCHANGED <<serial, adb_cmd, _linesep, bridge, attached, env, input>>

Next ==
    \/ BridgeChange
    \/ ReadFeatures
    \/ ReadLinesep
    \/ ShellNocheck
    \/ Shell

Spec == Init /\ [][Next]_vars


(***************************************************************************)
(* C2: in Mode A ('shell_v2' in the handle's features) shell_nocheck sends *)
(* the user command with no epilogue, returns the process's return code    *)
(* verbatim and returns exactly the captured stdout and stderr.            *)
(***************************************************************************)
ModeA == _features # None /\ InList(<<"s", "h", "e", "l", "l", "_", "v", "2">>, _features[1])

C2_ModeAVerbatim ==
    (ret.op = "shell_nocheck" /\ ModeA) =>
        /\ ret.command = adb_cmd \o <<SHELL>> \o ret.cmd
        /\ ret.result = Return(<<ret.proc.returncode, ret.proc.stdout,
                                 ret.proc.stderr>>)

C2_Witness ==
    /\ ret.op = "shell_nocheck"
    /\ ModeA
    /\ ret.proc.returncode = 255
    /\ ret.proc.stdout = <<"a", "x", "\n">>
    /\ ret.result.kind = "return"

(***************************************************************************)
(* C4: shell(cmd) raises ShellError iff the exit code returned by          *)
(* shell_nocheck is nonzero; the error carries the caller's cmd and the    *)
(* stdout, stderr and exit code of shell_nocheck; on exit code 0 shell     *)
(* returns exactly (stdout, stderr) of shell_nocheck.                      *)
(***************************************************************************)
C4_ShellErrorIffNonzero ==
    (ret.op = "shell" /\ ret.nocheck.kind = "return") =>
        LET exit_code == ret.nocheck.value[1]
            stdout == ret.nocheck.value[2]
            stderr == ret.nocheck.value[3]
        IN /\ (ret.result.kind = "raise") <=> (exit_code # 0)
           /\ exit_code # 0 =>
                ret.result = RaiseWith("ShellError",
                                       <<ret.cmd, stdout, stderr, exit_code>>)
           /\ exit_code = 0 => ret.result = Return(<<stdout, stderr>>)

C4_Witness ==
    /\ ret.op = "shell"
    /\ ret.mode.parsed
    /\ ret.nocheck.kind = "return"
    /\ ret.nocheck.value[1] = 1
    /\ ret.result.kind = "raise"
    /\ ret.result.exc = "ShellError"

(***************************************************************************)
(* C9: every shell call on a handle uses the same mode, the mode the       *)
(* cached feature set selects, and a call appends the epilogue iff it      *)
(* parses the output for the exit code; also when the first feature query  *)
(* failed and was recorded as the empty list.                              *)
(***************************************************************************)
C9_ModeConsistency ==
    /\ Cardinality(modes) <= 1
    /\ \A m \in modes :
         /\ m.epilogue = m.parsed
         /\ _features # None
         /\ m.parsed <=> ~ModeA

C9_Witness ==
    /\ ret.op \in {"shell", "shell_nocheck"}
    /\ issued = <<>>
    /\ _features = Some(<<>>)
    /\ bridge.features.kind = "return"
    /\ InList(<<"s", "h", "e", "l", "l", "_", "v", "2">>,
              SplitLines(bridge.features.value))
    /\ modes = {[epilogue |-> TRUE, parsed |-> TRUE]}

(***************************************************************************)
(* C10: _features and _linesep each go from unset to set at most once and  *)
(* never change afterwards; once a field is set no further bridge query is *)
(* issued for it and every later read returns the cached value.            *)
(***************************************************************************)
CountIn(x, list) == Cardinality({i \in 1..Len(list) : list[i] = x})

C10_LazyCachesSetOnce ==
    [][/\ _features # None =>
            /\ _features' = _features
            /\ CountIn("features", issued') = 0
            /\ ret'.op = "features" => ret'.result = Return(_features[1])
       /\ _linesep # None =>
            /\ _linesep' = _linesep
            /\ CountIn("echo", issued') = 0
            /\ ret'.op = "linesep" => ret'.result = Return(_linesep[1])
       /\ CountIn("features", issued') <= 1
       /\ CountIn("echo", issued') <= 1]_vars

C10_Witness ==
    /\ ret.op = "linesep"
    /\ issued = <<>>
    /\ _linesep = Some(<<"\n">>)
    /\ bridge.echo = Return(<<"\r", "\n">>)
    /\ _features = Some(<<>>)
    /\ bridge.features.kind = "return"


(***************************************************************************)
(* Device directory: get_devices, get_device                               *)
(***************************************************************************)
OFFLINE == <<"o", "f", "f", "l", "i", "n", "e">>

\* re.split(r'\s+', line, maxsplit=1): the pieces around the first run of
\* whitespace, or the line alone when it has none
SplitFirstWhitespace(line) ==
    LET ws == {i \in 1..Len(line) : line[i] \in Whitespace} IN
    IF ws = {} THEN <<line>>
    ELSE LET i == CHOOSE j \in ws : \A k \in ws : j <= k
             rest == {j \in i..Len(line) : line[j] \notin Whitespace}
             e == IF rest = {} THEN Len(line) + 1
                  ELSE CHOOSE j \in rest : \A k \in rest : j <= k
         IN <<SubSeq(line, 1, i - 1), SubSeq(line, e, Len(line))>>

\* the loop of get_devices over out[1:]
RECURSIVE CollectDevices(_, _)
CollectDevices(lines, devices) ==
    IF lines = <<>> THEN Return(devices)
    ELSE LET line == Head(lines) IN
         IF Strip(line) = <<>> THEN CollectDevices(Tail(lines), devices)
         ELSE IF Contains(line, OFFLINE) THEN CollectDevices(Tail(lines), devices)
         ELSE LET parts == SplitFirstWhitespace(line) IN
              IF Len(parts) # 2 THEN Raise("ValueError")
              ELSE CollectDevices(Tail(lines), Append(devices, parts[1]))

\* get_devices, given the output of `adb devices`
get_devices(text) ==
    LET out == SplitLines(text) IN
    CollectDevices(IF out = <<>> THEN <<>> ELSE Tail(out), <<>>)

\* _get_unique_device
_get_unique_device(product, text) ==
    LET devices == get_devices(text) IN
    IF devices.kind = "raise" THEN devices
    ELSE IF Len(devices.value) # 1 THEN Raise("NoUniqueDeviceError")
    ELSE Return([serial |-> Some(devices.value[1]),
                 adb_cmd |-> NewAdbCmd(Some(devices.value[1]), product)])

\* _get_device_by_serial
_get_device_by_serial(s, product, text) ==
    LET devices == get_devices(text) IN
    IF devices.kind = "raise" THEN devices
    ELSE IF InList(s, devices.value)
         THEN Return([serial |-> Some(s), adb_cmd |-> NewAdbCmd(Some(s), product)])
         ELSE RaiseWith("DeviceNotFoundError", s)

\* get_device looking at $ANDROID_SERIAL before its serial argument.
get_device_env_first(s, product, android_serial, text) ==
    IF android_serial # None
    THEN _get_device_by_serial(android_serial[1], product, text)
    ELSE IF s # None
    THEN _get_device_by_serial(s[1], product, text)
    ELSE _get_unique_device(product, text)

\* get_device; android_serial is os.getenv('ANDROID_SERIAL')
get_device(s, product, android_serial, text) ==
    IF s # None
    THEN _get_device_by_serial(s[1], product, text)
    ELSE IF android_serial # None
    THEN _get_device_by_serial(android_serial[1], product, text)
    ELSE _get_unique_device(product, text)

(***************************************************************************)
(* Specification of the directory: the bridge knows the devices in         *)
(* `attached` and prints them as `adb devices` does.                       *)
(***************************************************************************)
HEADER == <<"L", "i", "s", "t", " ", "o", "f", " ", "d", "e", "v", "i", "c", "e", "s", " ", "a", "t", "t", "a", "c", "h", "e", "d">>

SerialA == <<"a">>
SerialB == <<"b">>
SerialOfflineLab == <<"o", "f", "f", "l", "i", "n", "e", "9">>

DeviceStates ==
    {<<"d", "e", "v", "i", "c", "e">>,
     <<"o", "f", "f", "l", "i", "n", "e">>,
     <<"u", "n", "a", "u", "t", "h", "o", "r", "i", "z", "e", "d">>}

\* an entry of the listing: a device, or a blank line
DeviceEntries ==
    [serial : {SerialA, SerialOfflineLab}, state : DeviceStates, blank : {FALSE}]
        \cup {[serial |-> <<>>, state |-> <<>>, blank |-> TRUE]}

RECURSIVE DevicesOutput(_)
DevicesOutput(entries) ==
    IF entries = <<>> THEN <<>>
    ELSE (IF Head(entries).blank THEN <<"\n">>
          ELSE Head(entries).serial \o <<"\t">> \o Head(entries).state \o <<"\n">>)
         \o DevicesOutput(Tail(entries))

\* the text `adb devices` prints
DevicesText(entries) == HEADER \o <<"\n">> \o DevicesOutput(entries)

InitDir ==
    /\ NoHandle
    /\ attached \in SeqsUpTo(DeviceEntries, MaxEntries)
    /\ env \in {None, Some(SerialA)}
    /\ input = DevicesText(attached)
    /\ ret = [op |-> "init"]

GetDevices ==
    /\ ret.op = "init"
    /\ ret' = [op |-> "get_devices", result |-> get_devices(input)]
    /\ UNCHANGED <<serial, adb_cmd, _features, _linesep, bridge, attached,
                   env, issued, modes, input>>

GetDevice ==
    /\ ret.op = "init"
    /\ \E s \in {None, Some(SerialA), Some(SerialB)},
          product \in {None, Some(<<"p">>)} :
         LET r == get_device(s, product, env, input) IN
         /\ ret' = [op |-> "get_device", serial |-> s, product |-> product,
                    result |-> r]
         /\ IF r.kind = "return"
            THEN /\ serial' = r.value.serial
                 /\ adb_cmd' = r.value.adb_cmd
            ELSE UNCHANGED <<serial, adb_cmd>>
    /\ UNCHANGED <<_features, _linesep, bridge, attached, env, issued, modes,
                   input>>

NextDir ==
    \/ GetDevices
    \/ GetDevice

SpecDir == InitDir /\ [][NextDir]_vars

(***************************************************************************)
(* C7: get_devices returns exactly the serials of the entries whose state  *)
(* is not "offline", in listed order; an entry that is not offline is      *)
(* never dropped, whatever its serial.                                     *)
(***************************************************************************)
IsOnline(e) == ~e.blank /\ e.state # <<"o", "f", "f", "l", "i", "n", "e">>

RECURSIVE OnlineSerials(_)
OnlineSerials(entries) ==
    IF entries = <<>> THEN <<>>
    ELSE (IF IsOnline(Head(entries)) THEN <<Head(entries).serial>> ELSE <<>>)
         \o OnlineSerials(Tail(entries))

C7_OnlineDevicesListed ==
    ret.op = "get_devices" => ret.result = Return(OnlineSerials(attached))

(***************************************************************************)
(* C3: get_device uses the serial argument, else $ANDROID_SERIAL, else the *)
(* single listed device.  A chosen serial missing from the device list     *)
(* raises DeviceNotFoundError carrying it; no serial, no override and a    *)
(* list of length other than 1 raises NoUniqueDeviceError; otherwise the   *)
(* handle returned has the chosen serial.                                  *)
(***************************************************************************)
C3_GetDeviceResolution ==
    ret.op = "get_device" =>
        LET listed == get_devices(input).value
            chosen == IF ret.serial # None THEN ret.serial ELSE env
        IN IF chosen # None
           THEN IF InList(chosen[1], listed)
                THEN /\ ret.result.kind = "return"
                     /\ ret.result.value.serial = chosen
                     /\ serial = chosen
                ELSE ret.result = RaiseWith("DeviceNotFoundError", chosen[1])
           ELSE IF Len(listed) # 1
                THEN ret.result = Raise("NoUniqueDeviceError")
                ELSE /\ ret.result.kind = "return"
                     /\ ret.result.value.serial = Some(listed[1])
                     /\ serial = Some(listed[1])

C3_Witness ==
    /\ ret.op = "get_device"
    /\ ret.serial = Some(SerialB)
    /\ env = Some(SerialA)
    /\ InList(SerialA, get_devices(input).value)
    /\ Len(get_devices(input).value) = 2
    /\ ret.result = RaiseWith("DeviceNotFoundError", SerialB)


(***************************************************************************)
(* Property helpers: get_props, get_prop                                   *)
(***************************************************************************)
GETPROP == <<"g", "e", "t", "p", "r", "o", "p">>

\* pattern.match(line) for r'^\[([^]]+)\]: \[(.*)\]': None, or the groups
\* (key, value).  The key runs to the first ']', the value to the last one.
PatternMatch(line) ==
    LET close == {i \in 2..Len(line) : line[i] = "]"} IN
    IF line = <<>> \/ line[1] # "[" \/ close = {} THEN None
    ELSE LET p == CHOOSE i \in close : \A k \in close : i <= k
             q == CHOOSE i \in close : \A k \in close : k <= i
         IN IF /\ p >= 3
               /\ SubSeq(line, p + 1, p + 3) = <<":", " ", "[">>
               /\ q >= p + 4
            THEN Some(<<SubSeq(line, 2, p - 1), SubSeq(line, p + 4, q - 1)>>)
            ELSE None

\* the loop of get_props; the dict is the set of its (key, value) items
RECURSIVE CollectProps(_, _)
CollectProps(output, result) ==
    IF output = <<>> THEN Return(result)
    ELSE LET line == Head(output)
             match == PatternMatch(line)
         IN IF match = None THEN RaiseWith("RuntimeError", <<"invalid getprop line", line>>)
            ELSE LET key == match[1][1]
                     value == match[1][2]
                 IN IF \E item \in result : item[1] = key
                    THEN RaiseWith("RuntimeError", <<"duplicate getprop key", key>>)
                    ELSE CollectProps(Tail(output), result \cup {<<key, value>>})

\* get_props, after its call of shell(['getprop'])
get_props(shell_result) ==
    IF shell_result.kind = "raise" THEN shell_result
    ELSE CollectProps(SplitLines(shell_result.value[1]), {})

\* get_prop, after its call of shell(['getprop', prop_name])
get_prop(shell_result) ==
    IF shell_result.kind = "raise" THEN shell_result
    ELSE LET output == SplitLines(shell_result.value[1]) IN
         IF Len(output) # 1
         THEN RaiseWith("RuntimeError", <<"Too many lines in getprop output", output>>)
         ELSE IF Strip(output[1]) = <<>> THEN Return(None)
         ELSE Return(Some(output[1]))

(***************************************************************************)
(* Specification of the property helpers on a new handle: the bridge       *)
(* process prints `input` for the getprop command.                         *)
(***************************************************************************)
PropLine(key, value, junk) ==
    <<"[">> \o key \o <<"]", ":", " ", "[">> \o value \o <<"]">> \o junk

PropLines ==
    {PropLine(k, v, j) : k \in {<<"a">>, <<"b">>, <<>>},
                         v \in {<<>>, <<"1", "]">>},
                         j \in {<<>>, <<"z">>}}
        \cup {<<"[", "a", "]", " ", "[", "1", "]">>, <<" ">>, <<"v">>, <<>>}

RECURSIVE JoinLines(_)
JoinLines(lines) ==
    IF lines = <<>> THEN <<>>
    ELSE Head(lines) \o <<"\n">> \o JoinLines(Tail(lines))

\* what the epilogue's echo adds in legacy mode
ProbeSuffixes == {<<>>, <<"x", "0", "\n">>, <<"x", "1", "\n">>}

PropOutputs ==
    {JoinLines(ls) \o sfx : ls \in SeqsUpTo(PropLines, MaxProps),
                            sfx \in ProbeSuffixes}

InitProps ==
    /\ serial = Some(SerialA)
    /\ adb_cmd = NewAdbCmd(serial, None)
    /\ _features = None
    /\ _linesep = None
    /\ bridge \in [features : FeatureAnswers, echo : {Return(<<"\n">>)}]
    /\ issued = <<>>
    /\ modes = {}
    /\ attached = <<>>
    /\ env = None
    /\ input \in PropOutputs
    /\ ret = [op |-> "init"]

GetProps ==
    /\ ret.op = "init"
    /\ LET cmd == <<GETPROP>>
           proc == [stdout |-> input, stderr |-> <<>>, returncode |-> 0]
           r == shell_nocheck(adb_cmd, _features, bridge.features, cmd, proc)
           sh == shell_check(cmd, r.result)
       IN /\ _features' = r.cache
          /\ issued' = r.issued
          /\ modes' = modes \cup {r.mode}
          /\ ret' = [op |-> "get_props", shell |-> sh, result |-> get_props(sh)]
    /\ UNCHANGED <<serial, adb_cmd, _linesep, bridge, attached, env, input>>

GetProp ==
    /\ ret.op = "init"
    /\ \E prop_name \in {<<"r", "o", ".", "a">>} :
         LET cmd == <<GETPROP, prop_name>>
             proc == [stdout |-> input, stderr |-> <<>>, returncode |-> 0]
             r == shell_nocheck(adb_cmd, _features, bridge.features, cmd, proc)
             sh == shell_check(cmd, r.result)
         IN /\ _features' = r.cache
            /\ issued' = r.issued
            /\ modes' = modes \cup {r.mode}
            /\ ret' = [op |-> "get_prop", prop_name |-> prop_name,
                       shell |-> sh, result |-> get_prop(sh)]
    /\ UNCHANGED <<serial, adb_cmd, _linesep, bridge, attached, env, input>>

NextProps ==
    \/ GetProps
    \/ GetProp

SpecProps == InitProps /\ [][NextProps]_vars

(***************************************************************************)
(* C5: when the remote command succeeds and its cleaned stdout is empty,   *)
(* get_prop returns None and does not raise; it returns None whenever the  *)
(* single output line is empty or whitespace-only, and it raises only when *)
(* more than one line is returned.                                         *)
(***************************************************************************)
C5_EmptyOutputIsAbsent ==
    (ret.op = "get_prop" /\ ret.shell.kind = "return") =>
        LET stdout == ret.shell.value[1]
            lines == SplitLines(stdout)
        IN /\ stdout = <<>> => ret.result = Return(None)
           /\ (Len(lines) = 1 /\ Strip(lines[1]) = <<>>) => ret.result = Return(None)
           /\ ret.result.kind = "raise" => Len(lines) > 1

(***************************************************************************)
(* C6: if every line of the getprop output has the exact form              *)
(* [key]: [value] and no key occurs twice, get_props returns the mapping   *)
(* of each key to its value; if any line is not of that form (text after   *)
(* the value's closing bracket, an empty key) or a key is repeated,        *)
(* get_props raises.                                                       *)
(***************************************************************************)
\* index of the first ']' of a line that has one
FirstClose(line) ==
    CHOOSE i \in 1..Len(line) : line[i] = "]" /\ \A k \in 1..(i - 1) : line[k] # "]"

\* line is "[" key "]: [" value "]" with a nonempty key free of ']'
ExactForm(line) ==
    /\ Len(line) >= 7
    /\ line[1] = "["
    /\ line[Len(line)] = "]"
    /\ LET p == FirstClose(line) IN
         /\ p >= 3
         /\ p + 4 <= Len(line)
         /\ SubSeq(line, p + 1, p + 3) = <<":", " ", "[">>

KeyOf(line) == SubSeq(line, 2, FirstClose(line) - 1)
ValueOf(line) == SubSeq(line, FirstClose(line) + 4, Len(line) - 1)

C6_ExactLinesOrRaise ==
    (ret.op = "get_props" /\ ret.shell.kind = "return") =>
        LET lines == SplitLines(ret.shell.value[1])
            wellFormed ==
                /\ \A i \in 1..Len(lines) : ExactForm(lines[i])
                /\ \A i, j \in 1..Len(lines) :
                       i # j => KeyOf(lines[i]) # KeyOf(lines[j])
        IN IF wellFormed
           THEN ret.result =
                    Return({<<KeyOf(lines[i]), ValueOf(lines[i])>> : i \in 1..Len(lines)})
           ELSE ret.result.kind = "raise"

====
